---- MODULE Spec2Model ----
(***************************************************************************)
(* Runtime selection for MoonBit executables:                              *)
(*   crates/moon/src/run/runtime.rs  RuntimeExecutableCache, CommandGuard, *)
(*                                   command_for, command_for_cached,      *)
(*                                   create_js_driver                     *)
(*   crates/moonbuild/src/lib.rs     the process-wide LazyLock resolvers   *)
(*                                                                         *)
(* A path is the sequence of its components (<<"/usr/bin", "node">>); a    *)
(* plain string used as a path is the one-component sequence (<<"node">>). *)
(* A command-line token is likewise a sequence of string pieces, so that   *)
(* one token made of several pieces differs from several tokens.           *)
(***************************************************************************)
EXTENDS Integers, Sequences, FiniteSets, TLC

VARIABLES
    pathEnv,     \* search path: executable name -> directory that holds it, or NotOnPath
    cache,       \* one RuntimeExecutableCache: field -> OnceCell<PathBuf> (NoPath = empty)
    lookups,     \* field -> number of times the cell's init closure ran
    ret,         \* field -> the path the accessor returned last (NoPath = never called)
    exeEnv,      \* [ok: current_exe() succeeded, files: names present in its directory]
    statics,     \* process-wide LazyLock statics: name -> [state, value]
    evals,       \* static -> number of times its initializer ran
    calls,       \* dispatch call id -> the call's record
    fsDirs,      \* temporary directories present on the filesystem
    fsFiles,     \* files present inside them: <<directory, file name>>
    delCount     \* call id -> number of times the call's guard deleted its directory

vars == <<pathEnv, cache, lookups, ret, exeEnv, statics, evals, calls, fsDirs, fsFiles, delCount>>

cacheVars == <<cache, lookups, ret>>
staticVars == <<exeEnv, statics, evals>>
callVars == <<calls, fsDirs, fsFiles, delCount>>

----------------------------------------------------------------------------
(* The environment search path and which::which                            *)

NoPath == <<>>
NotOnPath == "-"
PathDirs == {"/usr/bin", "/opt/bin"}

CacheFields == {"node", "moonrun", "rustica_engine"}
CacheNames == {"node", "node.cmd", "moonrun", "rustica-engine", "rustica-engine.exe"}
StaticNames == CacheNames \cup {"python3", "python", "python3.exe", "python.exe"}

\* which::which(name): Ok(path in the first search-path directory holding
\* name), or Err, written NoPath.
which(env, name) ==
    IF env[name] = NotOnPath THEN NoPath ELSE <<env[name], name>>

----------------------------------------------------------------------------
(* RuntimeExecutableCache (the cache! macro)                               *)

\* cache! { node("node", "node.cmd"), moonrun("moonrun"),
\*          rustica_engine("rustica-engine", "rustica-engine.exe") }
Candidates(id) ==
    CASE id = "node" -> <<"node", "node.cmd">>
      [] id = "moonrun" -> <<"moonrun">>
      [] id = "rustica_engine" -> <<"rustica-engine", "rustica-engine.exe">>

\* which::which($first_candidate) $(.or_else(|_| which::which($candidate)))*
RECURSIVE or_else(_, _, _)
or_else(env, cands, i) ==
    IF i > Len(cands) THEN NoPath
    ELSE IF which(env, cands[i]) # NoPath THEN which(env, cands[i])
    ELSE or_else(env, cands, i + 1)

\* (variant: falls back to the last candidate)
unwrap_or_last_candidate(r, cands) ==
    IF r # NoPath THEN r ELSE <<cands[Len(cands)]>>

\* .unwrap_or($first_candidate.into())
unwrap_or(r, cands) ==
    IF r # NoPath THEN r ELSE <<cands[1]>>

\* the closure handed to get_or_init
init_closure(env, id) ==
    unwrap_or(or_else(env, Candidates(id), 1), Candidates(id))

\* (variant: runs the closure on every call)
get_or_init_unmemoized(cell, env, id) ==
    [value |-> init_closure(env, id), ran |-> 1]

\* OnceCell::get_or_init: value is the cell's content after the call, which
\* is also what the accessor returns a reference to; ran counts the runs of
\* the closure.
get_or_init(cell, env, id) ==
    IF cell # NoPath THEN [value |-> cell, ran |-> 0]
    ELSE [value |-> init_closure(env, id), ran |-> 1]

\* #[derive(Default)]: every OnceCell empty
DefaultCache == [id \in CacheFields |-> NoPath]

\* pub fn $id(&self) -> &Path
Accessor(id) ==
    LET r == get_or_init(cache[id], pathEnv, id) IN
    /\ cache' = [cache EXCEPT ![id] = r.value]
    /\ lookups' = [lookups EXCEPT ![id] = @ + r.ran]
    /\ ret' = [ret EXCEPT ![id] = r.value]
    /\ UNCHANGED <<pathEnv, staticVars, callVars>>

\* the environment changes between calls: an executable appears in a search
\* path directory, moves to another one, or disappears
PathChange(name, where) ==
    /\ pathEnv[name] # where
    /\ pathEnv' = [pathEnv EXCEPT ![name] = where]
    /\ UNCHANGED <<cacheVars, staticVars, callVars>>

----------------------------------------------------------------------------
(* The process-wide resolvers of moonbuild (LazyLock<Option<PathBuf>>);    *)
(* None is written NoPath.                                                 *)

Statics == {"MOONRUN_EXECUTABLE", "NODE_EXECUTABLE", "PYTHON_EXECUTABLE",
            "RUSTICA_ENGINE_EXECUTABLE"}

ExeDir == "<exe_dir>"
ExeDirNames == {"moonrun", "node", "python3", "rustica-engine", "rustica-engine.exe"}

\* [..].iter().find_map(|name| which::which(name).ok())
find_map_which(env, cands) == or_else(env, cands, 1)

\* candidates.iter().map(|exe| exe_dir.join(exe)).find(|p| p.exists())
RECURSIVE find_exists(_, _, _)
find_exists(exe, cands, i) ==
    IF i > Len(cands) THEN NoPath
    ELSE IF cands[i] \in exe.files THEN <<ExeDir, cands[i]>>
    ELSE find_exists(exe, cands, i + 1)

\* (variant: never looks next to the current executable)
MOONRUN_EXECUTABLE_path_only(env, exe) ==
    which(env, "moonrun")

MOONRUN_EXECUTABLE(env, exe) ==
    IF exe.ok /\ "moonrun" \in exe.files THEN <<ExeDir, "moonrun">>
    ELSE which(env, "moonrun")

NODE_EXECUTABLE(env, exe) ==
    find_map_which(env, <<"node.cmd", "node">>)

PYTHON_EXECUTABLE(env, exe) ==
    find_map_which(env, <<"python3", "python", "python3.exe", "python.exe">>)

RUSTICA_ENGINE_EXECUTABLE(env, exe) ==
    LET candidates == <<"rustica-engine.exe", "rustica-engine">>
        rv == IF exe.ok THEN find_exists(exe, candidates, 1) ELSE NoPath
    IN  IF rv # NoPath THEN rv ELSE find_map_which(env, candidates)

Initializer(s, env, exe) ==
    CASE s = "MOONRUN_EXECUTABLE" -> MOONRUN_EXECUTABLE(env, exe)
      [] s = "NODE_EXECUTABLE" -> NODE_EXECUTABLE(env, exe)
      [] s = "PYTHON_EXECUTABLE" -> PYTHON_EXECUTABLE(env, exe)
      [] s = "RUSTICA_ENGINE_EXECUTABLE" -> RUSTICA_ENGINE_EXECUTABLE(env, exe)

\* LazyLock::force on the first dereference of the static
Force(s) ==
    /\ statics[s].state = "uninit"
    /\ statics' = [statics EXCEPT ![s] =
                      [state |-> "init", value |-> Initializer(s, pathEnv, exeEnv)]]
    /\ evals' = [evals EXCEPT ![s] = @ + 1]
    /\ UNCHANGED <<pathEnv, exeEnv, cacheVars, callVars>>

\* a later dereference reads the stored value
Deref(s) ==
    /\ statics[s].state = "init"
    /\ UNCHANGED vars

----------------------------------------------------------------------------
(* Commands, test arguments and the filesystem of temporary directories    *)

\* TargetBackend
Backends == {"Wasm", "WasmGC", "MoonGRES", "Js", "Native", "LLVM"}

\* a &str handed to Command::arg
Lit(str) == <<str>>

\* mbt_executable
Artifacts == {<<".", "prog">>, <<".", "a.wasm">>}

\* Option<&TestArgs>: None, or a TestArgs with its package and its
\* test-selection values
NoTest == [present |-> FALSE, package |-> "", args |-> <<>>]
Tests ==
    {NoTest,
     [present |-> TRUE, package |-> "pkg_a", args |-> <<"-t", "case1">>]}

\* serde_json::to_string(t): one string that carries the whole TestArgs
to_json(t) == <<"{", t.package>> \o t.args \o <<"}">>

\* the tokens of the native command-line rendering of a TestArgs
native_argument_tokens(t) == [i \in 1 .. Len(t.args) |-> Lit(t.args[i])]

\* TestArgs::to_cli_args_for_native: the rendering as the one value that
\* Command::arg accepts, the pieces of all its tokens in one string
RECURSIVE concat(_)
concat(tokens) ==
    IF tokens = <<>> THEN <<>> ELSE Head(tokens) \o concat(Tail(tokens))

to_cli_args_for_native(t) == concat(native_argument_tokens(t))

\* Command::new(program) and Command::arg / Command::args: a command is the
\* sequence of its tokens, the program first
Command_new(program) == <<program>>
arg(cmd, token) == Append(cmd, token)
args(cmd, tokens) == cmd \o tokens

\* TempDir::new creates a directory under the system's temporary directory
\* whose name no existing entry has
MaxTmpNames == 2
TmpNames == 1 .. MaxTmpNames
NoDir == 0
TmpPath(d) == <<"/tmp", ToString(d)>>

\* (variant: may name an existing directory)
TmpNamesAny(dirs) == TmpNames

FreshTmpNames(dirs) == TmpNames \ dirs

\* dir.path().join(name)
join(d, name) == Append(TmpPath(d), name)

\* remove_dir_all on the directory: what is left of the files
remove_dir_all_files(d, files) ==
    {f \in files : f[1] # d}

\* dropping an Option<TempDir>: TempDir's destructor removes the directory
\* and what it contains; deleted counts the removals
\* (variant: the directory is kept)
drop_temp_file_leaks(tmp, dirs, files) ==
    [dirs |-> dirs, files |-> files, deleted |-> 0]

drop_temp_file(tmp, dirs, files) ==
    IF tmp # NoDir
    THEN [dirs |-> dirs \ {tmp}, files |-> remove_dir_all_files(tmp, files), deleted |-> 1]
    ELSE [dirs |-> dirs, files |-> files, deleted |-> 0]

IdleCall ==
    [pc |-> "idle", backend |-> "", artifact |-> NoPath, test |-> NoTest,
     dir |-> NoDir, failed |-> "", outcome |-> "", resolved |-> "",
     command |-> <<>>, temp_file |-> NoDir, owned |-> FALSE, spawned |-> FALSE,
     exit |-> ""]

----------------------------------------------------------------------------
(* command_for_cached: one command shape per backend                       *)

\* (variant: no -- after the artifact)
WasmCommand_no_separator(moonrun, mbt_executable, test) ==
    LET cmd0 == Command_new(moonrun)
        cmd1 == IF test.present
                THEN arg(arg(cmd0, Lit("--test-args")), to_json(test))
                ELSE cmd0
    IN  arg(cmd1, mbt_executable)

\* TargetBackend::Wasm | TargetBackend::WasmGC
WasmCommand(moonrun, mbt_executable, test) ==
    LET cmd0 == Command_new(moonrun)
        cmd1 == IF test.present
                THEN arg(arg(cmd0, Lit("--test-args")), to_json(test))
                ELSE cmd0
    IN  arg(arg(cmd1, mbt_executable), Lit("--"))

\* (variant: run whatever the test)
MoonGRESCommand_always_run(rustica_engine, mbt_executable, test) ==
    arg(arg(arg(Command_new(rustica_engine), Lit("run")), mbt_executable), Lit("--"))

\* TargetBackend::MoonGRES
MoonGRESCommand(rustica_engine, mbt_executable, test) ==
    LET cmd0 == Command_new(rustica_engine)
        cmd1 == IF test.present
                THEN arg(arg(arg(cmd0, Lit("moontest")), Lit("--spec")), to_json(test))
                ELSE arg(cmd0, Lit("run"))
    IN  arg(arg(cmd1, mbt_executable), Lit("--"))

\* (variant: node runs the artifact)
JsTestCommand_runs_artifact(node, mbt_executable, driver, test) ==
    arg(arg(arg(Command_new(node), Lit("--enable-source-maps")), mbt_executable),
        to_json(test))

\* TargetBackend::Js with a test: the driver, not the artifact
JsTestCommand(node, mbt_executable, driver, test) ==
    arg(arg(arg(Command_new(node), Lit("--enable-source-maps")), driver), to_json(test))

\* TargetBackend::Js without a test
JsCommand(node, mbt_executable) ==
    arg(Command_new(node), mbt_executable)

\* (variant: Command::args on the tokens of the rendering)
NativeCommand_flattened(mbt_executable, test) ==
    LET cmd == Command_new(mbt_executable)
    IN  IF test.present THEN args(cmd, native_argument_tokens(test)) ELSE cmd

\* TargetBackend::Native | TargetBackend::LLVM: Command::arg on the rendering
NativeCommand(mbt_executable, test) ==
    LET cmd == Command_new(mbt_executable)
    IN  IF test.present THEN arg(cmd, to_cli_args_for_native(test)) ELSE cmd

\* the accessor of the cache a backend's arm calls ("" for none)
RuntimeOf(backend) ==
    CASE backend \in {"Wasm", "WasmGC"} -> "moonrun"
      [] backend = "MoonGRES" -> "rustica_engine"
      [] backend = "Js" -> "node"
      [] backend \in {"Native", "LLVM"} -> ""

\* The cache the call reads: the caller's (command_for_cached) or a
\* RuntimeExecutableCache::default() of its own (command_for).
CacheOf(shared) == IF shared THEN cache ELSE DefaultCache

\* the effect of the arm's accessor call on the caller's cache
UseCache(shared, id, r) ==
    IF shared /\ id # ""
    THEN /\ cache' = [cache EXCEPT ![id] = r.value]
         /\ lookups' = [lookups EXCEPT ![id] = @ + r.ran]
         /\ ret' = [ret EXCEPT ![id] = r.value]
    ELSE UNCHANGED cacheVars

\* command_for (shared = FALSE) and command_for_cached (shared = TRUE) for
\* every case but Js with a test: the arm builds the command and returns it
\* in a guard that owns nothing (From<Command>).
CommandFor(c, shared, backend, mbt_executable, test) ==
    /\ calls[c].pc = "idle"
    /\ ~(backend = "Js" /\ test.present)
    /\ LET id == RuntimeOf(backend)
           r == IF id = "" THEN [value |-> NoPath, ran |-> 0]
                ELSE get_or_init(CacheOf(shared)[id], pathEnv, id)
           cmd == CASE backend \in {"Wasm", "WasmGC"} ->
                         WasmCommand(r.value, mbt_executable, test)
                    [] backend = "MoonGRES" ->
                         MoonGRESCommand(r.value, mbt_executable, test)
                    [] backend = "Js" -> JsCommand(r.value, mbt_executable)
                    [] backend \in {"Native", "LLVM"} ->
                         NativeCommand(mbt_executable, test)
       IN  /\ calls' = [calls EXCEPT ![c] =
                 [IdleCall EXCEPT !.pc = "returned", !.backend = backend,
                                  !.artifact = mbt_executable, !.test = test,
                                  !.outcome = "Ok", !.resolved = id,
                                  !.command = cmd, !.temp_file = NoDir]]
           /\ UseCache(shared, id, r)
    /\ UNCHANGED <<pathEnv, staticVars, fsDirs, fsFiles, delCount>>

----------------------------------------------------------------------------
(* Js with a test: create_js_driver, step by step                          *)

\* what a failed .expect(..) in create_js_driver makes of the call
expect_failed == "Panic"

\* let dir = TempDir::new().expect(..)
JsTempDirNew(c, mbt_executable, test, d) ==
    /\ calls[c].pc = "idle"
    /\ test.present
    /\ d \in FreshTmpNames(fsDirs)
    /\ fsDirs' = fsDirs \cup {d}
    /\ calls' = [calls EXCEPT ![c] =
          [IdleCall EXCEPT !.pc = "tempdir", !.backend = "Js",
                           !.artifact = mbt_executable, !.test = test, !.dir = d]]
    /\ UNCHANGED <<pathEnv, cacheVars, staticVars, fsFiles, delCount>>

\* TempDir::new() fails: nothing was created
JsTempDirFail(c, mbt_executable, test) ==
    /\ calls[c].pc = "idle"
    /\ test.present
    /\ calls' = [calls EXCEPT ![c] =
          [IdleCall EXCEPT !.pc = "ended", !.failed = "tempdir", !.outcome = expect_failed]]
    /\ UNCHANGED <<pathEnv, cacheVars, staticVars, fsDirs, fsFiles, delCount>>

\* std::fs::write(&js_file, js_driver).expect(..)
JsWriteDriver(c) ==
    /\ calls[c].pc = "tempdir"
    /\ fsFiles' = fsFiles \cup {<<calls[c].dir, "driver.cjs">>}
    /\ calls' = [calls EXCEPT ![c].pc = "driver"]
    /\ UNCHANGED <<pathEnv, cacheVars, staticVars, fsDirs, delCount>>

\* one of the two writes fails: the call ends there, and leaving
\* create_js_driver drops its local dir, which removes the directory
JsWriteFail(c) ==
    /\ calls[c].pc \in {"tempdir", "driver"}
    /\ LET fs == drop_temp_file(calls[c].dir, fsDirs, fsFiles)
       IN  fsDirs' = fs.dirs /\ fsFiles' = fs.files
    /\ calls' = [calls EXCEPT ![c] =
          [IdleCall EXCEPT !.pc = "ended",
                           !.failed = IF calls[c].pc = "tempdir" THEN "driver.cjs"
                                      ELSE "package.json",
                           !.outcome = expect_failed]]
    /\ UNCHANGED <<pathEnv, cacheVars, staticVars, delCount>>

\* std::fs::write(package_json, "{}").expect(..), Ok((dir, js_file)) and the
\* rest of the Js arm, which cannot fail: the command on the driver and a
\* guard that owns dir
JsWritePackageJson(c, shared) ==
    /\ calls[c].pc = "driver"
    /\ fsFiles' = fsFiles \cup {<<calls[c].dir, "package.json">>}
    /\ LET r == get_or_init(CacheOf(shared)["node"], pathEnv, "node")
           driver == join(calls[c].dir, "driver.cjs")
       IN  /\ calls' = [calls EXCEPT ![c].pc = "returned", ![c].outcome = "Ok",
                                     ![c].resolved = "node",
                                     ![c].command = JsTestCommand(r.value, calls[c].artifact,
                                                                  driver, calls[c].test),
                                     ![c].temp_file = calls[c].dir]
           /\ UseCache(shared, "node", r)
    /\ UNCHANGED <<pathEnv, staticVars, fsDirs, delCount>>

----------------------------------------------------------------------------
(* CommandGuard in the hands of the caller                                 *)

ExitPaths == {"normal", "early_return", "failure"}

\* The guard's scope ends on one of the caller's exit paths, after the
\* caller spawned guard.command or without it: the guard's fields are
\* dropped.  The command and the handle are gone afterwards; owned keeps
\* whether the guard had a directory.
DropGuard(c, how, spawned) ==
    /\ calls[c].pc = "returned"
    /\ LET fs == drop_temp_file(calls[c].temp_file, fsDirs, fsFiles)
       IN  /\ fsDirs' = fs.dirs
           /\ fsFiles' = fs.files
           /\ delCount' = [delCount EXCEPT ![c] = @ + fs.deleted]
    /\ calls' = [calls EXCEPT ![c] =
          [IdleCall EXCEPT !.pc = "dropped", !.outcome = "Ok",
                           !.owned = (calls[c].temp_file # NoDir),
                           !.spawned = spawned, !.exit = how]]
    /\ UNCHANGED <<pathEnv, cacheVars, staticVars>>

----------------------------------------------------------------------------
(* Initial states                                                          *)

MaxCalls == 2
CallIds == 1 .. MaxCalls

InitCache ==
    /\ cache = DefaultCache
    /\ lookups = [id \in CacheFields |-> 0]
    /\ ret = [id \in CacheFields |-> NoPath]

InitStatics ==
    /\ statics = [s \in Statics |-> [state |-> "uninit", value |-> NoPath]]
    /\ evals = [s \in Statics |-> 0]

InitCalls ==
    /\ calls = [c \in CallIds |-> IdleCall]
    /\ fsDirs = {}
    /\ fsFiles = {}
    /\ delCount = [c \in CallIds |-> 0]

----------------------------------------------------------------------------
(* The cache on its own: accessor calls interleaved with search path       *)
(* changes                                                                 *)

InitC ==
    /\ pathEnv \in {e \in [StaticNames -> PathDirs \cup {NotOnPath}] :
                      \A n \in StaticNames \ CacheNames : e[n] = NotOnPath}
    /\ exeEnv = [ok |-> FALSE, files |-> {}]
    /\ InitCache /\ InitStatics /\ InitCalls

NextC ==
    \/ \E id \in CacheFields : Accessor(id)
    \/ \E name \in CacheNames, where \in PathDirs \cup {NotOnPath} : PathChange(name, where)

SpecCache == InitC /\ [][NextC]_vars

\* C7: on one cache instance every call of one accessor returns the same
\* path, the init closure of a field runs at most once, on the first access
\* and not at construction, the returned path survives changes of the search
\* path, and an access leaves every other field's cell as it was.
C7_ResolveOncePerField ==
    /\ [](\A id \in CacheFields :
            /\ lookups[id] = (IF ret[id] = NoPath THEN 0 ELSE 1)
            /\ ret[id] = cache[id])
    /\ [][\A id \in CacheFields :
            /\ ret[id] # NoPath => ret'[id] = ret[id]
            /\ cache'[id] # cache[id] =>
                 \A other \in CacheFields \ {id} :
                    cache'[other] = cache[other] /\ lookups'[other] = lookups[other]]_vars

\* node was resolved, the search path has changed since so that a fresh
\* lookup would give another path, and moonrun has not been resolved
C7_Witness ==
    /\ ret["node"] # NoPath
    /\ ret["node"] # init_closure(pathEnv, "node")
    /\ lookups["node"] = 1
    /\ cache["moonrun"] = NoPath

\* what the first access of a field must produce on search path env
FirstDiscoverable(env, id) ==
    CASE id = "node" ->
           IF env["node"] # NotOnPath THEN <<env["node"], "node">>
           ELSE IF env["node.cmd"] # NotOnPath THEN <<env["node.cmd"], "node.cmd">>
           ELSE <<"node">>
      [] id = "moonrun" ->
           IF env["moonrun"] # NotOnPath THEN <<env["moonrun"], "moonrun">>
           ELSE <<"moonrun">>
      [] id = "rustica_engine" ->
           IF env["rustica-engine"] # NotOnPath
           THEN <<env["rustica-engine"], "rustica-engine">>
           ELSE IF env["rustica-engine.exe"] # NotOnPath
           THEN <<env["rustica-engine.exe"], "rustica-engine.exe">>
           ELSE <<"rustica-engine">>

\* C8: resolution never fails: the access that fills a cell stores the path
\* of the first candidate, in declared order, found on the search path, and
\* the first candidate's name as a literal path when none is found.
C8_FirstCandidateOrLiteral ==
    [][\A id \in CacheFields :
          lookups'[id] = lookups[id] + 1 =>
             /\ ret'[id] # NoPath
             /\ ret'[id] = FirstDiscoverable(pathEnv, id)]_vars

\* node resolved to its second candidate, moonrun found, rustica-engine not
\* found although the search path now has its second candidate
C8_Witness ==
    /\ ret["node"] = <<"/opt/bin", "node.cmd">>
    /\ ret["moonrun"] = <<"/usr/bin", "moonrun">>
    /\ ret["rustica_engine"] = <<"rustica-engine">>

----------------------------------------------------------------------------
(* The process-wide resolvers on their own, in every environment           *)

InitG ==
    /\ pathEnv \in [StaticNames -> {"/usr/bin", NotOnPath}]
    /\ exeEnv \in {e \in [ok : BOOLEAN, files : SUBSET ExeDirNames] :
                      ~e.ok => e.files = {}}
    /\ InitCache /\ InitStatics /\ InitCalls

NextG ==
    \/ \E s \in Statics : Force(s)
    \/ \E s \in Statics : Deref(s)

SpecGlobal == InitG /\ [][NextG]_vars

\* the path a resolver would give if it preferred the directory of the
\* current executable over the search path
AdjacentFirst(cands, env, exe) ==
    IF exe.ok /\ find_exists(exe, cands, 1) # NoPath THEN find_exists(exe, cands, 1)
    ELSE find_map_which(env, cands)

\* C9 as stated: MOONRUN_EXECUTABLE, NODE_EXECUTABLE and PYTHON_EXECUTABLE all
\* prefer a candidate in the directory of the current executable, consult the
\* search path only when there is none, are evaluated once, and are None when
\* nothing is found.
C9_AllPreferExeDir ==
    /\ \A s \in Statics : evals[s] = (IF statics[s].state = "init" THEN 1 ELSE 0)
    /\ statics["MOONRUN_EXECUTABLE"].state = "init" =>
          statics["MOONRUN_EXECUTABLE"].value = AdjacentFirst(<<"moonrun">>, pathEnv, exeEnv)
    /\ statics["NODE_EXECUTABLE"].state = "init" =>
          statics["NODE_EXECUTABLE"].value = AdjacentFirst(<<"node.cmd", "node">>, pathEnv, exeEnv)
    /\ statics["PYTHON_EXECUTABLE"].state = "init" =>
          statics["PYTHON_EXECUTABLE"].value =
             AdjacentFirst(<<"python3", "python", "python3.exe", "python.exe">>, pathEnv, exeEnv)

\* the first of cands the search path holds, None when it holds none
OnSearchPath(cands, env) ==
    IF \E i \in 1 .. Len(cands) : env[cands[i]] # NotOnPath
    THEN LET i == CHOOSE i \in 1 .. Len(cands) :
                     /\ env[cands[i]] # NotOnPath
                     /\ \A j \in 1 .. i - 1 : env[cands[j]] = NotOnPath
         IN  <<env[cands[i]], cands[i]>>
    ELSE NoPath

\* C9 amended: MOONRUN_EXECUTABLE (and RUSTICA_ENGINE_EXECUTABLE) prefer a
\* candidate in the directory of the current executable and consult the
\* search path only when there is none; NODE_EXECUTABLE and PYTHON_EXECUTABLE
\* consult the search path alone, whatever that directory holds.  Each is
\* evaluated once, on first use, and is None when nothing is found.
C9_OnlyMoonrunPrefersExeDir ==
    /\ \A s \in Statics : evals[s] = (IF statics[s].state = "init" THEN 1 ELSE 0)
    /\ statics["MOONRUN_EXECUTABLE"].state = "init" =>
          statics["MOONRUN_EXECUTABLE"].value =
             (IF exeEnv.ok /\ "moonrun" \in exeEnv.files THEN <<ExeDir, "moonrun">>
              ELSE OnSearchPath(<<"moonrun">>, pathEnv))
    /\ statics["RUSTICA_ENGINE_EXECUTABLE"].state = "init" =>
          statics["RUSTICA_ENGINE_EXECUTABLE"].value =
             (IF exeEnv.ok /\ "rustica-engine.exe" \in exeEnv.files
              THEN <<ExeDir, "rustica-engine.exe">>
              ELSE IF exeEnv.ok /\ "rustica-engine" \in exeEnv.files
              THEN <<ExeDir, "rustica-engine">>
              ELSE OnSearchPath(<<"rustica-engine.exe", "rustica-engine">>, pathEnv))
    /\ statics["NODE_EXECUTABLE"].state = "init" =>
          statics["NODE_EXECUTABLE"].value = OnSearchPath(<<"node.cmd", "node">>, pathEnv)
    /\ statics["PYTHON_EXECUTABLE"].state = "init" =>
          statics["PYTHON_EXECUTABLE"].value =
             OnSearchPath(<<"python3", "python", "python3.exe", "python.exe">>, pathEnv)

\* all evaluated: moonrun taken from the executable's directory although the
\* search path has one too, node taken from the search path although the
\* executable's directory has one, python found nowhere
C9_Witness ==
    /\ \A s \in Statics : statics[s].state = "init"
    /\ exeEnv.ok /\ {"moonrun", "node"} \subseteq exeEnv.files
    /\ pathEnv["moonrun"] # NotOnPath
    /\ statics["MOONRUN_EXECUTABLE"].value = <<ExeDir, "moonrun">>
    /\ statics["NODE_EXECUTABLE"].value = <<"/usr/bin", "node">>
    /\ statics["PYTHON_EXECUTABLE"].value = NoPath

----------------------------------------------------------------------------
(* The dispatcher: calls of command_for and command_for_cached on one      *)
(* shared cache, the steps of the Js calls and the ends of the guards'     *)
(* scopes in any interleaving                                              *)

\* a search path that holds the second candidates of node and rustica-engine
\* and no moonrun
OnlyAliasesOnPath ==
    [n \in StaticNames |-> IF n \in {"node.cmd", "rustica-engine.exe"} THEN "/opt/bin"
                           ELSE NotOnPath]

Init ==
    /\ pathEnv = OnlyAliasesOnPath
    /\ exeEnv = [ok |-> FALSE, files |-> {}]
    /\ InitCache /\ InitStatics /\ InitCalls

Next ==
    \/ \E c \in CallIds, shared \in BOOLEAN, b \in Backends, exe \in Artifacts, t \in Tests :
          CommandFor(c, shared, b, exe, t)
    \/ \E c \in CallIds, exe \in Artifacts, t \in Tests, d \in TmpNames :
          JsTempDirNew(c, exe, t, d)
    \/ \E c \in CallIds, exe \in Artifacts, t \in Tests : JsTempDirFail(c, exe, t)
    \/ \E c \in CallIds : JsWriteDriver(c)
    \/ \E c \in CallIds, shared \in BOOLEAN : JsWritePackageJson(c, shared)
    \/ \E c \in CallIds : JsWriteFail(c)
    \/ \E c \in CallIds, how \in ExitPaths, spawned \in BOOLEAN : DropGuard(c, how, spawned)

Spec == Init /\ [][Next]_vars

----------------------------------------------------------------------------
(* The commands the dispatcher returns                                     *)

Returned(c) == calls[c].pc = "returned"

\* the tokens of a command as a set
Tokens(cmd) == {cmd[i] : i \in 1 .. Len(cmd)}

\* C1 as stated: Native and LLVM run the artifact itself; with a test the
\* tokens of its native rendering follow it one by one (./prog -t case1 is
\* three tokens), without a test nothing follows; no runtime is resolved and
\* the guard owns no temporary directory.
C1_NativeRenderingFlattened ==
    \A c \in CallIds :
       Returned(c) /\ calls[c].backend \in {"Native", "LLVM"} =>
          /\ calls[c].command =
                <<calls[c].artifact>> \o
                   (IF calls[c].test.present THEN native_argument_tokens(calls[c].test)
                    ELSE <<>>)
          /\ calls[c].resolved = ""
          /\ calls[c].temp_file = NoDir

\* C1 amended: Native and LLVM run the artifact itself; with a test the
\* whole native rendering follows it as exactly one token, without a test
\* nothing follows; no runtime is resolved and the guard owns no temporary
\* directory.
C1_NativeRenderingOneToken ==
    \A c \in CallIds :
       Returned(c) /\ calls[c].backend \in {"Native", "LLVM"} =>
          /\ calls[c].command[1] = calls[c].artifact
          /\ Len(calls[c].command) = (IF calls[c].test.present THEN 2 ELSE 1)
          /\ calls[c].test.present =>
                calls[c].command[2] = to_cli_args_for_native(calls[c].test)
          /\ calls[c].resolved = ""
          /\ calls[c].temp_file = NoDir

\* a native call with the test -t case1 on ./prog has returned two tokens,
\* an LLVM call without a test one
C1_Witness ==
    /\ Returned(1) /\ calls[1].backend = "Native"
    /\ calls[1].command = << <<".", "prog">>, <<"-t", "case1">> >>
    /\ Returned(2) /\ calls[2].backend = "LLVM"
    /\ calls[2].command = << <<".", "a.wasm">> >>

\* C2: Wasm and WasmGC give moonrun --test-args <json> <artifact> -- with a
\* test and moonrun <artifact> -- without; -- is last, the artifact right
\* before it, and the guard owns no temporary directory.
C2_WasmCommand ==
    \A c \in CallIds :
       Returned(c) /\ calls[c].backend \in {"Wasm", "WasmGC"} =>
          LET cmd == calls[c].command
              moonrun == FirstDiscoverable(pathEnv, "moonrun")
          IN  /\ cmd = IF calls[c].test.present
                       THEN <<moonrun, <<"--test-args">>, to_json(calls[c].test),
                              calls[c].artifact, <<"--">> >>
                       ELSE <<moonrun, calls[c].artifact, <<"--">> >>
              /\ cmd[Len(cmd)] = <<"--">>
              /\ cmd[Len(cmd) - 1] = calls[c].artifact
              /\ calls[c].temp_file = NoDir

\* a Wasm call with a test and a WasmGC call without one have returned
C2_Witness ==
    /\ Returned(1) /\ calls[1].backend = "Wasm" /\ calls[1].test.present
    /\ Len(calls[1].command) = 5
    /\ Returned(2) /\ calls[2].backend = "WasmGC" /\ ~calls[2].test.present
    /\ calls[2].command = << <<"moonrun">>, <<".", "a.wasm">>, <<"--">> >>

\* C3: Js with a test gives node --enable-source-maps <driver> <json>, the
\* driver being driver.cjs inside the directory the guard owns and the
\* artifact no token of the command; Js without a test gives node <artifact>
\* and a guard that owns nothing.  Over all backends the guard owns a
\* directory exactly for Js with a test.
C3_JsCommand ==
    \A c \in CallIds :
       Returned(c) =>
          LET cmd == calls[c].command
              node == FirstDiscoverable(pathEnv, "node")
          IN  /\ calls[c].backend = "Js" /\ calls[c].test.present =>
                    /\ calls[c].temp_file \in fsDirs
                    /\ <<calls[c].temp_file, "driver.cjs">> \in fsFiles
                    /\ cmd = <<node, <<"--enable-source-maps">>,
                               <<"/tmp", ToString(calls[c].temp_file), "driver.cjs">>,
                               to_json(calls[c].test)>>
                    /\ calls[c].artifact \notin Tokens(cmd)
              /\ calls[c].backend = "Js" /\ ~calls[c].test.present =>
                    cmd = <<node, calls[c].artifact>>
              /\ calls[c].temp_file # NoDir <=>
                    (calls[c].backend = "Js" /\ calls[c].test.present)

\* a Js call with a test and a Js call without one have returned
C3_Witness ==
    /\ Returned(1) /\ calls[1].backend = "Js" /\ calls[1].test.present
    /\ calls[1].temp_file # NoDir
    /\ Returned(2) /\ calls[2].backend = "Js" /\ ~calls[2].test.present
    /\ calls[2].temp_file = NoDir

\* C4: MoonGRES gives rustica-engine moontest --spec <json> <artifact> --
\* with a test and rustica-engine run <artifact> -- without; exactly one of
\* moontest and run occurs, as the first argument, and the guard owns no
\* temporary directory.
C4_MoonGRESCommand ==
    \A c \in CallIds :
       Returned(c) /\ calls[c].backend = "MoonGRES" =>
          LET cmd == calls[c].command
              engine == FirstDiscoverable(pathEnv, "rustica_engine")
          IN  /\ cmd = IF calls[c].test.present
                       THEN <<engine, <<"moontest">>, <<"--spec">>, to_json(calls[c].test),
                              calls[c].artifact, <<"--">> >>
                       ELSE <<engine, <<"run">>, calls[c].artifact, <<"--">> >>
              /\ {i \in 1 .. Len(cmd) : cmd[i] \in {<<"moontest">>, <<"run">>}} = {2}
              /\ calls[c].temp_file = NoDir

\* a MoonGRES call with a test and one without have returned
C4_Witness ==
    /\ Returned(1) /\ calls[1].backend = "MoonGRES" /\ calls[1].test.present
    /\ calls[1].command[2] = <<"moontest">>
    /\ Returned(2) /\ calls[2].backend = "MoonGRES" /\ ~calls[2].test.present
    /\ calls[2].command[2] = <<"run">>

----------------------------------------------------------------------------
(* Temporary directories and their guards                                  *)

\* the temporary directory a call holds: create_js_driver's local dir, then
\* the guard's _temp_file
HeldDir(c) ==
    CASE calls[c].pc \in {"tempdir", "driver"} -> calls[c].dir
      [] calls[c].pc = "returned" -> calls[c].temp_file
      [] OTHER -> NoDir

\* C5: while a guard that owns a temporary directory is alive the directory
\* and its two files exist and nothing has deleted them; when its scope has
\* ended, on any exit path and spawned or not, the guard has deleted the
\* directory exactly once; no directory or file outlives its holder, and a
\* guard that owns nothing deletes nothing.
C5_GuardDeletesOnce ==
    /\ \A c \in CallIds :
          /\ Returned(c) /\ calls[c].temp_file # NoDir =>
                /\ calls[c].temp_file \in fsDirs
                /\ {<<calls[c].temp_file, "driver.cjs">>,
                    <<calls[c].temp_file, "package.json">>} \subseteq fsFiles
                /\ delCount[c] = 0
          /\ calls[c].pc = "dropped" => delCount[c] = (IF calls[c].owned THEN 1 ELSE 0)
          /\ calls[c].pc # "dropped" => delCount[c] = 0
    /\ fsDirs = {HeldDir(c) : c \in CallIds} \ {NoDir}
    /\ \A f \in fsFiles : f[1] \in fsDirs

\* one guard owned a directory and was dropped on the failure path without
\* a spawn; the other owned nothing and was dropped on normal return
C5_Witness ==
    /\ calls[1].pc = "dropped" /\ calls[1].owned /\ calls[1].exit = "failure"
    /\ ~calls[1].spawned /\ delCount[1] = 1
    /\ calls[2].pc = "dropped" /\ ~calls[2].owned /\ calls[2].exit = "normal"
    /\ fsDirs = {} /\ fsFiles = {}

\* C6: when TempDir::new or one of the two writes fails, the call returns
\* Err to its caller.
C6_FailureReturnsErr ==
    \A c \in CallIds : calls[c].failed # "" => calls[c].outcome = "Err"

\* C10: two Js calls with tests never hold the same temporary directory,
\* whatever the interleaving of their steps and of the ends of their guards,
\* and the files of a live guard exist whatever the other call has done.
C10_DistinctDirectories ==
    \A c1, c2 \in CallIds :
       c1 # c2 /\ HeldDir(c1) # NoDir =>
          /\ HeldDir(c2) # HeldDir(c1)
          /\ HeldDir(c1) \in fsDirs
          /\ calls[c1].pc \in {"driver", "returned"} =>
                <<HeldDir(c1), "driver.cjs">> \in fsFiles
          /\ Returned(c1) => <<HeldDir(c1), "package.json">> \in fsFiles

\* two guards that own directories are alive at once
C10_Witness ==
    /\ Returned(1) /\ Returned(2)
    /\ calls[1].temp_file # NoDir /\ calls[2].temp_file # NoDir
    /\ calls[1].temp_file # calls[2].temp_file
    /\ Cardinality(fsFiles) = 4

====
